---- MODULE Spec2Model ----
(***************************************************************************)
(* Model of bootstrap.py: the install orchestrator (main) and its five     *)
(* steps, run one or more times against the same .tooling directory.       *)
(* Every blocking call (subprocess, download, extraction, copy) ends in    *)
(* one of three ways: it succeeds, it fails, or the operator interrupts.   *)
(***************************************************************************)
EXTENDS Integers, Sequences, FiniteSets, TLC

\* ---------------------------------------------------------------------
\* Bounds
\* ---------------------------------------------------------------------
MaxRuns == 2

\* ---------------------------------------------------------------------
\* Program constants
\* ---------------------------------------------------------------------
ExitOk == 0
ExitFatal == 1
ExitInterrupt == 130

DefaultBranch == "master"
Channels == {"stable", "beta"}
Refs == {"", "v3"}

Outcomes == {"ok", "fail", "int"}

Steps == <<"ensure_prereqs", "install_flutter", "install_android_cmdline",
           "install_android_packages", "ensure_msvc_on_windows">>

VARIABLES
    \* host and configuration (fixed for the life of the model)
    windows,        \* is_windows()
    envFile,        \* the .env file: whether it exists, and its lines
    env_map,        \* load_env_file(".env") of this run
    haveGit,        \* have_cmd("git")
    haveJava,       \* have_cmd("java")
    haveWinget,     \* have_cmd("winget")
    haveVswhere,    \* vswhere.exe exists under Program Files
    vcTools,        \* VC tools component installed (what vswhere reports)
    \* the .tooling directory and what the external tools keep in it
    tooling,        \* .tooling exists
    flutter_head,   \* branch or ref checked out in .tooling/flutter, "none" if absent
    flutter_fetched,\* the configured ref has been fetched into the clone
    latest_exists,  \* android-sdk/cmdline-tools/latest exists
    latest,         \* tree under cmdline-tools/latest: path -> "dir" or file content
    td,             \* the temporary directory: "none", "empty", "zip", "extracted"
    arch,           \* cmdline-tools directory of the archive downloaded last
    sdkPkgs,        \* sdkmanager has installed the package list
    flConfigured,   \* flutter config --android-sdk has succeeded
    flPrecached,    \* flutter precache has succeeded
    \* the current run of main
    pc,             \* position in main, "idle" before the first run, "exited" after a run
    exitStatus,     \* process exit status, meaningful when pc = "exited"
    complete,       \* "Bootstrap complete." has been logged in this run
    trace,          \* steps started and blocking calls made in this run, in order
    failed,         \* blocking calls of this run that failed
    todo,           \* children of the extracted cmdline-tools directory not yet copied
    runs,           \* number of runs started
    interruptedAt,  \* the blocking call in which KeyboardInterrupt was raised, else "none"
    argv,           \* arguments of the blocking call made last, <<>> at a step's start
    remediation,    \* install commands named in the SystemExit message, by OS family
    \* history
    pre,            \* tree under latest when the copy loop of this run started
    seed,           \* tree under latest before the first run
    overrides,      \* the key/value pairs the .env file was written from
    prevOk          \* the previous run exited with status 0

hostVars == <<windows, envFile, env_map, overrides, haveGit, haveWinget>>
msvcVars == <<haveVswhere, vcTools>>
flutterVars == <<flutter_head, flutter_fetched>>
sdkVars == <<latest_exists, latest, td, arch, todo, pre>>
toolVars == <<sdkPkgs, flConfigured, flPrecached>>
vars == <<windows, envFile, env_map, overrides, haveGit, haveJava, haveWinget,
          haveVswhere, vcTools, argv, remediation,
          tooling, flutter_head, flutter_fetched, latest_exists, latest, td, arch,
          sdkPkgs, flConfigured, flPrecached,
          pc, exitStatus, complete, trace, failed, todo, runs, interruptedAt,
          pre, seed, prevOk>>

\* ---------------------------------------------------------------------
\* Text: a line is a sequence of tokens; a token is one of the characters
\* space, #, =, ' and ", or a run of other characters
\* ---------------------------------------------------------------------
RECURSIVE Str(_)
Str(s) == IF s = <<>> THEN "" ELSE s[1] \o Str(Tail(s))

RECURSIVE LStrip(_, _)
LStrip(s, cs) == IF s # <<>> /\ s[1] \in cs THEN LStrip(Tail(s), cs) ELSE s

RECURSIVE RStrip(_, _)
RStrip(s, cs) ==
    IF s # <<>> /\ s[Len(s)] \in cs THEN RStrip(SubSeq(s, 1, Len(s) - 1), cs) ELSE s

\* str.strip(): cs = {" "}; str.strip("'"): cs = {"'"}
Strip(s, cs) == RStrip(LStrip(s, cs), cs)

Blank == {" "}

\* index of the first "=" of s, 0 if there is none
FirstEq(s) ==
    IF \E i \in DOMAIN s : s[i] = "="
    THEN CHOOSE i \in DOMAIN s : s[i] = "=" /\ \A j \in 1..(i - 1) : s[j] # "="
    ELSE 0

\* variant: the quotes around a value are kept
ParseLine_keepquotes(m, line) ==
    LET s == Strip(line, Blank)
        i == FirstEq(s)
    IN  IF s = <<>> \/ s[1] = "#" \/ i = 0 THEN m
        ELSE LET k == Str(Strip(SubSeq(s, 1, i - 1), Blank))
                 v == Strip(SubSeq(s, i + 1, Len(s)), Blank)
             IN  [q \in DOMAIN m \cup {k} |-> IF q = k THEN v ELSE m[q]]

\* the body of the loop of load_env_file: one line into the mapping m
ParseLine(m, line) ==
    LET s == Strip(line, Blank)
        i == FirstEq(s)
    IN  IF s = <<>> \/ s[1] = "#" \/ i = 0 THEN m
        ELSE LET k == Str(Strip(SubSeq(s, 1, i - 1), Blank))
                 v == Strip(Strip(Strip(SubSeq(s, i + 1, Len(s)), Blank), {"'"}), {"\""})
             IN  [q \in DOMAIN m \cup {k} |-> IF q = k THEN v ELSE m[q]]

RECURSIVE ParseLines(_, _)
ParseLines(m, lines) ==
    IF lines = <<>> THEN m ELSE ParseLines(ParseLine(m, lines[1]), Tail(lines))

EmptyMap == [k \in {} |-> <<>>]

\* load_env_file(".env"): key -> value, the value as a sequence of tokens
load_env_file(f) == IF ~f.exists THEN EmptyMap ELSE ParseLines(EmptyMap, f.lines)

\* env_map.get(k, d)
Get(m, k, d) == IF k \in DOMAIN m THEN m[k] ELSE d

\* the recognized keys and their defaults
Keys == {"FLUTTER_CHANNEL", "FLUTTER_REF", "ANDROID_CMDLINE_TOOLS", "ANDROID_PLATFORM",
         "ANDROID_BUILD_TOOLS", "ANDROID_NDK", "ANDROID_CMAKE"}

KeyOrder == <<"FLUTTER_CHANNEL", "FLUTTER_REF", "ANDROID_CMDLINE_TOOLS", "ANDROID_PLATFORM",
              "ANDROID_BUILD_TOOLS", "ANDROID_NDK", "ANDROID_CMAKE">>

Default(k) ==
    CASE k = "FLUTTER_CHANNEL" -> <<"stable">>
      [] k = "FLUTTER_REF" -> <<>>
      [] k = "ANDROID_CMDLINE_TOOLS" -> <<"11076708">>
      [] k = "ANDROID_PLATFORM" -> <<"android-34">>
      [] k = "ANDROID_BUILD_TOOLS" -> <<"34.0.0">>
      [] k = "ANDROID_NDK" -> <<"26.1.10909125">>
      [] k = "ANDROID_CMAKE" -> <<"3.22.1">>

\* the values the steps read from env_map
channel == Str(Get(env_map, "FLUTTER_CHANNEL", Default("FLUTTER_CHANNEL")))
ref == Str(Strip(Get(env_map, "FLUTTER_REF", Default("FLUTTER_REF")), Blank))
cmd_ver == Str(Get(env_map, "ANDROID_CMDLINE_TOOLS", Default("ANDROID_CMDLINE_TOOLS")))
platform_id == Str(Get(env_map, "ANDROID_PLATFORM", Default("ANDROID_PLATFORM")))
build_tools_id == Str(Get(env_map, "ANDROID_BUILD_TOOLS", Default("ANDROID_BUILD_TOOLS")))
ndk_id == Str(Get(env_map, "ANDROID_NDK", Default("ANDROID_NDK")))
cmake_id == Str(Get(env_map, "ANDROID_CMAKE", Default("ANDROID_CMAKE")))

\* one line of a .env file for key k and value v, written in a given style
RenderLine(k, v, style) ==
    CASE style = "plain" -> <<k, "=">> \o v
      [] style = "dquote" -> <<k, "=", "\"">> \o v \o <<"\"">>
      [] style = "squote" -> <<k, "=", "'">> \o v \o <<"'">>
      [] style = "spaced" -> <<" ", " ", k, " ", "=", " ">> \o v \o <<" ">>

RECURSIVE RenderLines(_, _, _)
RenderLines(ks, ov, style) ==
    IF ks = <<>> THEN <<>>
    ELSE (IF ks[1] \in DOMAIN ov THEN <<RenderLine(ks[1], ov[ks[1]], style)>> ELSE <<>>)
         \o RenderLines(Tail(ks), ov, style)

\* lines that contribute no entry: a comment, a blank line, a line without "="
Noise == << <<" ", "#", " ", "FLUTTER_REF", "=", "zzz">>, <<" ">>, <<"junk">> >>

\* a .env file holding the pairs ov; style "missing" is no file at all
RenderFile(ov, style) ==
    IF style = "missing" THEN [exists |-> FALSE, lines |-> <<>>]
    ELSE [exists |-> TRUE,
          lines |-> (IF style = "spaced" THEN Noise ELSE <<>>)
                    \o RenderLines(KeyOrder, ov, style)]

AndroidOverrides ==
    ("ANDROID_CMDLINE_TOOLS" :> <<"9477386">>) @@ ("ANDROID_PLATFORM" :> <<"android-33">>) @@
    ("ANDROID_BUILD_TOOLS" :> <<"33.0.2">>) @@ ("ANDROID_NDK" :> <<"r25", "=", "c">>) @@
    ("ANDROID_CMAKE" :> <<"3.18.1">>)

\* the configurations the model is run with
Configs ==
    { [ov |-> EmptyMap, style |-> "missing"],
      [ov |-> ("FLUTTER_REF" :> <<"v3">>), style |-> "plain"],
      [ov |-> ("FLUTTER_CHANNEL" :> <<"beta">>), style |-> "dquote"],
      [ov |-> ("FLUTTER_CHANNEL" :> <<"beta">>) @@ ("FLUTTER_REF" :> <<"v3">>)
                @@ AndroidOverrides, style |-> "spaced"],
      [ov |-> AndroidOverrides, style |-> "squote"],
      [ov |-> ("FLUTTER_CHANNEL" :> <<"beta">>) @@ ("FLUTTER_REF" :> <<>>),
       style |-> "plain"] }

\* ---------------------------------------------------------------------
\* Trees: a function from paths (sequences of names) to "dir" or a file's content
\* ---------------------------------------------------------------------
EmptyTree == [p \in {} |-> "dir"]

Put(t, p, c) == [q \in DOMAIN t \cup {p} |-> IF q = p THEN c ELSE t[q]]

Name(p) == p[Len(p)]

Children(t, p) == {q \in DOMAIN t : Len(q) = Len(p) + 1 /\ SubSeq(q, 1, Len(p)) = p}

\* sdkmanager_bin, relative to cmdline-tools/latest
SdkMgrName == IF windows THEN "sdkmanager.bat" ELSE "sdkmanager"
sdkmanager_bin == <<"bin", SdkMgrName>>

\* variant: the check looks for flutter.bat on every host
FlutterMarker_bat == windows /\ flutter_head # "none"

\* flutter_bin exists exactly when a work tree is checked out in .tooling/flutter
FlutterMarker == flutter_head # "none"

\* variant: the check looks for sdkmanager.bat on every host
SdkMarker_bat == <<"bin", "sdkmanager.bat">> \in DOMAIN latest

\* Path(sdkmanager_bin(android_sdk)).exists()
SdkMarker == sdkmanager_bin \in DOMAIN latest

\* The cmdline-tools directory of the downloaded archive (the wrapper itself is <<>>)
Archive ==
    (<<"bin">> :> "dir") @@ (<<"bin", SdkMgrName>> :> "new") @@
    (<<"lib">> :> "dir") @@ (<<"lib", "x.jar">> :> "new") @@
    (<<"NOTICE">> :> "new")

\* An archive of another layout: no sdkmanager under bin
ArchiveNoMgr ==
    (<<"lib">> :> "dir") @@ (<<"lib", "x.jar">> :> "new") @@ (<<"NOTICE">> :> "new")

Archives == {Archive, ArchiveNoMgr}

\* Trees that may be under cmdline-tools/latest before the first run
Seeds ==
    { EmptyTree,
      (<<"README">> :> "user"),
      (<<"lib">> :> "dir") @@ (<<"lib", "x.jar">> :> "old") @@ (<<"lib", "extra">> :> "user")
        @@ (<<"NOTICE">> :> "old"),
      (<<"NOTICE">> :> "dir"),
      (<<"lib">> :> "user") }

\* shutil.copy2(item, dst): into dst when dst is a directory
copy2(src, s, t, d) ==
    LET target == IF d \in DOMAIN t /\ t[d] = "dir" THEN d \o <<Name(s)>> ELSE d
    IN  IF target \in DOMAIN t /\ t[target] = "dir"
        THEN [tree |-> t, err |-> TRUE]
        ELSE [tree |-> Put(t, target, src[s]), err |-> FALSE]

RECURSIVE copytree(_, _, _, _)
RECURSIVE CopyEntries(_, _, _, _)

\* the loop of shutil.copytree over the entries es of a source directory
CopyEntries(src, es, t, d) ==
    IF es = {} THEN [tree |-> t, err |-> FALSE]
    ELSE LET e == CHOOSE x \in es : TRUE
             dstname == d \o <<Name(e)>>
             r == IF src[e] = "dir" THEN copytree(src, e, t, dstname)
                                    ELSE copy2(src, e, t, dstname)
             rest == CopyEntries(src, es \ {e}, r.tree, d)
         IN  [tree |-> rest.tree, err |-> r.err \/ rest.err]

\* variant: an existing destination directory is replaced, not merged into
copytree_replace(src, s, t, d) ==
    IF d \in DOMAIN t /\ t[d] # "dir"
    THEN [tree |-> t, err |-> TRUE]
    ELSE LET kept == {q \in DOMAIN t : ~(Len(q) > Len(d) /\ SubSeq(q, 1, Len(d)) = d)}
             cleared == [q \in kept |-> t[q]]
         IN  CopyEntries(src, Children(src, s), Put(cleared, d, "dir"), d)

\* shutil.copytree(item, dst, dirs_exist_ok=True)
copytree(src, s, t, d) ==
    IF d \in DOMAIN t /\ t[d] # "dir"
    THEN [tree |-> t, err |-> TRUE]
    ELSE CopyEntries(src, Children(src, s), Put(t, d, "dir"), d)

\* one iteration of the loop "for item in src.iterdir()"
CopyItem(src, item, t) ==
    IF src[item] = "dir" THEN copytree(src, item, t, item)
                         ELSE copy2(src, item, t, item)

\* what an item's copy may leave behind when it is cut short
PartialCopies(src, item, t) ==
    IF src[item] = "dir"
    THEN {t} \cup
         { CopyEntries(src, S, Put(t, item, "dir"), item).tree :
             S \in IF item \in DOMAIN t /\ t[item] # "dir"
                   THEN {} ELSE SUBSET Children(src, item) }
    ELSE {t}

\* ---------------------------------------------------------------------
\* Initial state: a host, a configuration and a .tooling directory in which
\* nothing has been installed
\* ---------------------------------------------------------------------
Init ==
    /\ windows \in BOOLEAN
    /\ \E c \in Configs :
         /\ overrides = c.ov
         /\ envFile = RenderFile(c.ov, c.style)
    /\ env_map = EmptyMap
    /\ argv = <<>>
    /\ remediation = {}
    /\ haveGit \in BOOLEAN
    /\ haveJava \in BOOLEAN
    /\ haveWinget \in (IF windows THEN BOOLEAN ELSE {FALSE})
    /\ haveVswhere \in (IF windows THEN BOOLEAN ELSE {FALSE})
    /\ vcTools \in (IF windows /\ haveVswhere THEN BOOLEAN ELSE {FALSE})
    /\ tooling = FALSE
    /\ flutter_head = "none"
    /\ flutter_fetched = FALSE
    /\ seed \in Seeds
    /\ latest = seed
    /\ latest_exists = (seed # EmptyTree)
    /\ td = "none"
    /\ arch = EmptyTree
    /\ sdkPkgs = FALSE
    /\ flConfigured = FALSE
    /\ flPrecached = FALSE
    /\ pc = "idle"
    /\ exitStatus = ExitOk
    /\ complete = FALSE
    /\ trace = <<>>
    /\ failed = {}
    /\ todo = {}
    /\ runs = 0
    /\ interruptedAt = "none"
    /\ pre = EmptyTree
    /\ prevOk = FALSE

\* ---------------------------------------------------------------------
\* How a run ends
\* ---------------------------------------------------------------------
\* the install commands named by the two SystemExit messages of ensure_prereqs
GitMissingText == {<<"Windows", "winget install -e --id Git.Git">>,
                   <<"Linux", "sudo apt install git">>}
JavaMissingText == {<<"Linux", "sudo apt install openjdk-17-jdk">>}
NoText == {}

\* SystemExit(message), or an uncaught exception (no install command in its text)
Abort(msg) ==
    /\ pc' = "exited" /\ exitStatus' = ExitFatal /\ remediation' = msg
    /\ UNCHANGED <<complete, interruptedAt>>

\* variant: every exception is turned into the interrupt status
Fatal_status130 ==
    /\ pc' = "exited" /\ exitStatus' = ExitInterrupt /\ remediation' = NoText
    /\ UNCHANGED <<complete, interruptedAt>>

\* an uncaught exception leaves main
Fatal == Abort(NoText)

\* KeyboardInterrupt reaches the handler of __main__
Interrupted ==
    /\ pc' = "exited" /\ exitStatus' = ExitInterrupt
    /\ UNCHANGED <<complete, remediation>>

\* the last step has returned: the final hints are logged and main returns
Finish ==
    /\ pc' = "exited" /\ exitStatus' = ExitOk /\ complete' = TRUE
    /\ UNCHANGED <<interruptedAt, remediation>>

Goto(l) == pc' = l /\ UNCHANGED <<exitStatus, complete, interruptedAt, remediation>>

\* KeyboardInterrupt is raised inside the blocking call c
Interrupt(c) == interruptedAt' = c

\* variant: main installs the SDK packages before the command-line tools
AfterStep_swapped(s) ==
    CASE s = "ensure_prereqs" -> "install_flutter"
      [] s = "install_flutter" -> "install_android_packages"
      [] s = "install_android_packages" -> "install_android_cmdline"
      [] s = "install_android_cmdline" -> "ensure_msvc_on_windows"
      [] s = "ensure_msvc_on_windows" -> "end"

\* the step that main calls after step s, "end" after the last one
AfterStep(s) ==
    CASE s = "ensure_prereqs" -> "install_flutter"
      [] s = "install_flutter" -> "install_android_cmdline"
      [] s = "install_android_cmdline" -> "install_android_packages"
      [] s = "install_android_packages" -> "ensure_msvc_on_windows"
      [] s = "ensure_msvc_on_windows" -> "end"

\* step s returns normally to main
Return(s) == IF AfterStep(s) = "end" THEN Finish ELSE Goto(AfterStep(s))

\* the paths main computes, relative to the working directory
flutter_root == ".tooling/flutter"
android_sdk == ".tooling/android-sdk"

\* variant: the .bat suffix is forgotten
flutter_bin_nobat(root) == root \o "/bin/" \o "flutter"

flutter_bin(root) == root \o "/bin/" \o (IF windows THEN "flutter.bat" ELSE "flutter")

\* str(sdkmanager_bin(android_sdk)), the path install_android_packages runs
sdkmanager_exe(sdk) ==
    sdk \o "/cmdline-tools/latest/" \o sdkmanager_bin[1] \o "/" \o sdkmanager_bin[2]

FlutterUrl == "https://github.com/flutter/flutter"

url ==
    "https://dl.google.com/android/repository/commandlinetools-"
      \o (IF windows THEN "win" ELSE "linux") \o "-" \o cmd_ver \o "_latest.zip"

pkgs == <<"platform-tools", "platforms;" \o platform_id, "build-tools;" \o build_tools_id,
          "cmake;" \o cmake_id, "ndk;" \o ndk_id>>

\* variant: the desktop flag is always passed
precache_args_always == <<"--android", "--windows">>

precache_args == <<"--android">> \o (IF windows THEN <<"--windows">> ELSE <<>>)

\* the argument list of the blocking call made at position l; <<>> where the
\* call is not a subprocess or l is the start of a step
Command(l) ==
    CASE l = "winget_jdk" ->
           <<"winget", "install", "-e", "--id", "Microsoft.OpenJDK.17", "--silent",
             "--accept-package-agreements", "--accept-source-agreements">>
      [] l = "git_clone_default" -> <<"git", "clone", "--depth", "1", FlutterUrl, flutter_root>>
      [] l = "git_fetch" -> <<"git", "fetch", "origin", ref, "--depth", "1">>
      [] l = "git_checkout" -> <<"git", "checkout", ref>>
      [] l = "git_clone_channel" ->
           <<"git", "clone", "--depth", "1", "-b", channel, FlutterUrl, flutter_root>>
      [] l = "download" -> <<url>>
      [] l = "sdk_licenses" ->
           <<sdkmanager_exe(android_sdk), "--sdk_root=" \o android_sdk, "--licenses">>
      [] l = "sdk_packages" ->
           <<sdkmanager_exe(android_sdk), "--sdk_root=" \o android_sdk>> \o pkgs
      [] l = "flutter_config" ->
           <<flutter_bin(flutter_root), "config", "--android-sdk", android_sdk>>
      [] l = "flutter_precache" -> <<flutter_bin(flutter_root), "precache">> \o precache_args
      [] l = "vswhere" ->
           <<"vswhere.exe", "-latest", "-products", "*", "-requires",
             "Microsoft.VisualStudio.Component.VC.Tools.x86.x64",
             "-property", "installationPath">>
      [] l = "winget_msvc" ->
           <<"winget", "install", "-e", "--id", "Microsoft.VisualStudio.2022.BuildTools",
             "--override",
             "--add Microsoft.VisualStudio.Workload.VCTools --includeRecommended --passive --norestart --wait",
             "--accept-package-agreements", "--accept-source-agreements">>
      [] OTHER -> <<>>

\* the step or blocking call c is entered at the current position
Call(c) == trace' = Append(trace, c) /\ argv' = Command(pc)

\* run_checked raised for this call
Failure(c) == failed' = failed \cup {c}

\* ---------------------------------------------------------------------
\* main, up to the first step
\* ---------------------------------------------------------------------
StartRun ==
    /\ pc \in {"idle", "exited"}
    /\ runs < MaxRuns
    /\ runs' = runs + 1
    /\ prevOk' = (pc = "exited" /\ exitStatus = ExitOk)
    /\ tooling' = TRUE
    /\ pc' = "ensure_prereqs"
    /\ exitStatus' = ExitOk
    /\ complete' = FALSE
    /\ trace' = <<>>
    /\ failed' = {}
    /\ interruptedAt' = "none"
    /\ argv' = <<>>
    /\ remediation' = NoText
    /\ env_map' = load_env_file(envFile)
    /\ UNCHANGED <<windows, envFile, overrides, haveGit, haveWinget,
                   haveJava, msvcVars, flutterVars, sdkVars, toolVars, seed>>

\* ---------------------------------------------------------------------
\* ensure_prereqs
\* ---------------------------------------------------------------------
\* variant: a missing JDK is not fatal
ensure_prereqs_warn ==
    /\ pc = "ensure_prereqs"
    /\ Call("ensure_prereqs")
    /\ IF ~haveGit
       THEN pc' = "exited" /\ exitStatus' = ExitFatal /\ remediation' = GitMissingText
       ELSE pc' = "install_flutter" /\ exitStatus' = exitStatus /\ remediation' = remediation
    /\ UNCHANGED <<hostVars, haveJava, msvcVars, tooling, flutterVars, sdkVars, toolVars,
                   failed, runs, seed, prevOk, complete, interruptedAt>>

ensure_prereqs ==
    /\ pc = "ensure_prereqs"
    /\ Call("ensure_prereqs")
    /\ IF ~haveGit THEN Abort(GitMissingText)
       ELSE IF haveJava THEN Return("ensure_prereqs")
       ELSE IF windows /\ haveWinget THEN Goto("winget_jdk")
       ELSE Abort(JavaMissingText)
    /\ UNCHANGED <<hostVars, haveJava, msvcVars, tooling, flutterVars, sdkVars, toolVars,
                   failed, runs, seed, prevOk>>

\* variant: the winget install of the JDK is not wrapped in try/except
winget_jdk_raises ==
    /\ pc = "winget_jdk"
    /\ Call("winget_jdk")
    /\ \E o \in Outcomes :
         \/ /\ o = "int"
            /\ Interrupt("winget_jdk") /\ Interrupted
            /\ UNCHANGED <<haveJava, failed>>
         \/ /\ o = "fail"
            /\ Failure("winget_jdk")
            /\ haveJava' \in BOOLEAN
            /\ Abort(NoText)
         \/ /\ o = "ok"
            /\ UNCHANGED failed
            /\ haveJava' \in BOOLEAN
            /\ IF haveJava' THEN Return("ensure_prereqs") ELSE Abort(JavaMissingText)
    /\ UNCHANGED <<hostVars, msvcVars, tooling, flutterVars, sdkVars, toolVars,
                   runs, seed, prevOk>>

\* the winget install of the JDK, its swallowed failure and the re-check of java
winget_jdk ==
    /\ pc = "winget_jdk"
    /\ Call("winget_jdk")
    /\ \E o \in Outcomes :
         \/ /\ o = "int"
            /\ Interrupt("winget_jdk") /\ Interrupted
            /\ UNCHANGED <<haveJava, failed>>
         \/ /\ o = "fail"
            /\ Failure("winget_jdk")
            /\ haveJava' \in BOOLEAN
            /\ IF haveJava' THEN Return("ensure_prereqs") ELSE Abort(JavaMissingText)
         \/ /\ o = "ok"
            /\ UNCHANGED failed
            /\ haveJava' \in BOOLEAN
            /\ IF haveJava' THEN Return("ensure_prereqs") ELSE Abort(JavaMissingText)
    /\ UNCHANGED <<hostVars, msvcVars, tooling, flutterVars, sdkVars, toolVars,
                   runs, seed, prevOk>>

\* ---------------------------------------------------------------------
\* install_flutter
\* ---------------------------------------------------------------------
\* variant: the configured ref is ignored
install_flutter_ignores_ref ==
    /\ pc = "install_flutter"
    /\ Call("install_flutter")
    /\ IF FlutterMarker THEN Return("install_flutter")
       ELSE Goto("git_clone_channel")
    /\ UNCHANGED <<hostVars, haveJava, msvcVars, tooling, flutterVars, sdkVars, toolVars,
                   failed, runs, seed, prevOk>>

install_flutter ==
    /\ pc = "install_flutter"
    /\ Call("install_flutter")
    /\ IF FlutterMarker THEN Return("install_flutter")
       ELSE IF ref # "" THEN Goto("git_clone_default")
       ELSE Goto("git_clone_channel")
    /\ UNCHANGED <<hostVars, haveJava, msvcVars, tooling, flutterVars, sdkVars, toolVars,
                   failed, runs, seed, prevOk>>

\* git clone --depth 1 <url> flutter_root
git_clone_default ==
    /\ pc = "git_clone_default"
    /\ Call("git_clone")
    /\ \E o \in Outcomes :
         \/ /\ o = "int" /\ Interrupt("git_clone") /\ Interrupted /\ UNCHANGED <<flutter_head, failed>>
         \/ /\ o = "fail" /\ Failure("git_clone") /\ Fatal /\ UNCHANGED flutter_head
         \/ /\ o = "ok" /\ flutter_head' = DefaultBranch /\ Goto("git_fetch")
            /\ UNCHANGED failed
    /\ UNCHANGED <<hostVars, haveJava, msvcVars, tooling, flutter_fetched, sdkVars, toolVars,
                   runs, seed, prevOk>>

\* git fetch origin <ref> --depth 1
git_fetch ==
    /\ pc = "git_fetch"
    /\ Call("git_fetch")
    /\ \E o \in Outcomes :
         \/ /\ o = "int" /\ Interrupt("git_fetch") /\ Interrupted /\ UNCHANGED <<flutter_fetched, failed>>
         \/ /\ o = "fail" /\ Failure("git_fetch") /\ Fatal /\ UNCHANGED flutter_fetched
         \/ /\ o = "ok" /\ flutter_fetched' = TRUE /\ Goto("git_checkout")
            /\ UNCHANGED failed
    /\ UNCHANGED <<hostVars, haveJava, msvcVars, tooling, flutter_head, sdkVars, toolVars,
                   runs, seed, prevOk>>

\* git checkout <ref>
git_checkout ==
    /\ pc = "git_checkout"
    /\ Call("git_checkout")
    /\ \E o \in Outcomes :
         \/ /\ o = "int" /\ Interrupt("git_checkout") /\ Interrupted /\ UNCHANGED <<flutter_head, failed>>
         \/ /\ o = "fail" /\ Failure("git_checkout") /\ Fatal /\ UNCHANGED flutter_head
         \/ /\ o = "ok" /\ flutter_head' = ref /\ Return("install_flutter")
            /\ UNCHANGED failed
    /\ UNCHANGED <<hostVars, haveJava, msvcVars, tooling, flutter_fetched, sdkVars, toolVars,
                   runs, seed, prevOk>>

\* git clone --depth 1 -b <channel> <url> flutter_root
git_clone_channel ==
    /\ pc = "git_clone_channel"
    /\ Call("git_clone")
    /\ \E o \in Outcomes :
         \/ /\ o = "int" /\ Interrupt("git_clone") /\ Interrupted /\ UNCHANGED <<flutter_head, failed>>
         \/ /\ o = "fail" /\ Failure("git_clone") /\ Fatal /\ UNCHANGED flutter_head
         \/ /\ o = "ok" /\ flutter_head' = channel /\ Return("install_flutter")
            /\ UNCHANGED failed
    /\ UNCHANGED <<hostVars, haveJava, msvcVars, tooling, flutter_fetched, sdkVars, toolVars,
                   runs, seed, prevOk>>

\* ---------------------------------------------------------------------
\* install_android_cmdline
\* ---------------------------------------------------------------------
\* variant: the temporary directory is made with mkdtemp and never removed
CleanupTd_leak == td' = td /\ todo' = {}

\* leaving the "with tempfile.TemporaryDirectory()" block, normally or not
CleanupTd == td' = "none" /\ todo' = {}

install_android_cmdline ==
    /\ pc = "install_android_cmdline"
    /\ Call("install_android_cmdline")
    /\ IF SdkMarker
       THEN Return("install_android_cmdline") /\ UNCHANGED <<latest_exists, td>>
       ELSE Goto("download") /\ latest_exists' = TRUE /\ td' = "empty"
    /\ UNCHANGED <<hostVars, haveJava, msvcVars, tooling, flutterVars, latest, arch, todo, pre,
                   toolVars, failed, runs, seed, prevOk>>

\* download(url, zpath)
download ==
    /\ pc = "download"
    /\ Call("download")
    /\ \E o \in Outcomes :
         \/ /\ o = "int" /\ Interrupt("download") /\ Interrupted /\ CleanupTd
            /\ UNCHANGED <<failed, arch>>
         \/ /\ o = "fail" /\ Failure("download") /\ Fatal /\ CleanupTd /\ UNCHANGED arch
         \/ /\ o = "ok" /\ td' = "zip" /\ arch' \in Archives /\ Goto("unzip")
            /\ UNCHANGED <<failed, todo>>
    /\ UNCHANGED <<hostVars, haveJava, msvcVars, tooling, flutterVars, latest_exists, latest,
                   pre, toolVars, runs, seed, prevOk>>

\* unzip(zpath, tmp_extract) and the listing of tmp_extract/cmdline-tools;
\* "nowrapper": the archive extracts but has no cmdline-tools directory
unzip ==
    /\ pc = "unzip"
    /\ Call("unzip")
    /\ \E o \in Outcomes \cup {"nowrapper"} :
         \/ /\ o = "int" /\ Interrupt("unzip") /\ Interrupted /\ CleanupTd /\ UNCHANGED <<failed, pre>>
         \/ /\ o \in {"fail", "nowrapper"} /\ Failure("unzip") /\ Fatal /\ CleanupTd
            /\ UNCHANGED pre
         \/ /\ o = "ok" /\ td' = "extracted" /\ todo' = Children(arch, <<>>)
            /\ pre' = latest /\ Goto("copy") /\ UNCHANGED failed
    /\ UNCHANGED <<hostVars, haveJava, msvcVars, tooling, flutterVars, latest_exists, latest,
                   arch, toolVars, runs, seed, prevOk>>

\* one iteration of "for item in src.iterdir()", in any order; after the last
\* item the with block is left and the step returns
copy ==
    /\ pc = "copy"
    /\ Call("copy")
    /\ \E item \in todo : \E o \in Outcomes :
         LET r == CopyItem(arch, item, latest) IN
         \/ /\ o = "int" /\ Interrupt("copy") /\ Interrupted /\ CleanupTd /\ UNCHANGED failed
            /\ latest' \in PartialCopies(arch, item, latest)
         \/ /\ o = "fail" /\ Failure("copy") /\ Fatal /\ CleanupTd
            /\ latest' \in PartialCopies(arch, item, latest)
         \/ /\ o = "ok" /\ r.err /\ Failure("copy") /\ Fatal /\ CleanupTd
            /\ latest' = r.tree
         \/ /\ o = "ok" /\ ~r.err /\ UNCHANGED failed
            /\ latest' = r.tree
            /\ IF todo = {item}
               THEN CleanupTd /\ Return("install_android_cmdline")
               ELSE todo' = todo \ {item} /\ td' = td /\ Goto("copy")
    /\ UNCHANGED <<hostVars, haveJava, msvcVars, tooling, flutterVars, latest_exists,
                   arch, pre, toolVars, runs, seed, prevOk>>

\* ---------------------------------------------------------------------
\* install_android_packages
\* ---------------------------------------------------------------------
\* variant: the existence of sdkmanager is not checked
install_android_packages_nocheck ==
    /\ pc = "install_android_packages"
    /\ Call("install_android_packages")
    /\ Goto("sdk_licenses")
    /\ UNCHANGED <<hostVars, haveJava, msvcVars, tooling, flutterVars, sdkVars, toolVars,
                   failed, runs, seed, prevOk>>

install_android_packages ==
    /\ pc = "install_android_packages"
    /\ Call("install_android_packages")
    /\ IF ~SdkMarker THEN Fatal ELSE Goto("sdk_licenses")
    /\ UNCHANGED <<hostVars, haveJava, msvcVars, tooling, flutterVars, sdkVars, toolVars,
                   failed, runs, seed, prevOk>>

\* variant: the license invocation is not wrapped in try/except
sdk_licenses_raises ==
    /\ pc = "sdk_licenses"
    /\ Call("sdk_licenses")
    /\ \E o \in Outcomes :
         \/ /\ o = "int" /\ interruptedAt' = "sdk_licenses"
            /\ pc' = "exited" /\ exitStatus' = ExitInterrupt /\ UNCHANGED failed
         \/ /\ o = "fail" /\ failed' = failed \cup {"sdk_licenses"}
            /\ pc' = "exited" /\ exitStatus' = ExitFatal /\ UNCHANGED interruptedAt
         \/ /\ o = "ok" /\ pc' = "sdk_packages"
            /\ UNCHANGED <<failed, exitStatus, interruptedAt>>
    /\ UNCHANGED <<hostVars, haveJava, msvcVars, tooling, flutterVars, sdkVars, toolVars,
                   runs, seed, prevOk, complete, remediation>>

\* variant: a bare "except:" around the license invocation
sdk_licenses_bare_except ==
    /\ pc = "sdk_licenses"
    /\ Call("sdk_licenses")
    /\ \E o \in Outcomes :
         \/ /\ o = "int" /\ interruptedAt' = "sdk_licenses"
            /\ pc' = "sdk_packages" /\ UNCHANGED <<failed, exitStatus>>
         \/ /\ o = "fail" /\ failed' = failed \cup {"sdk_licenses"}
            /\ pc' = "sdk_packages" /\ UNCHANGED <<exitStatus, interruptedAt>>
         \/ /\ o = "ok" /\ pc' = "sdk_packages"
            /\ UNCHANGED <<failed, exitStatus, interruptedAt>>
    /\ UNCHANGED <<hostVars, haveJava, msvcVars, tooling, flutterVars, sdkVars, toolVars,
                   runs, seed, prevOk, complete, remediation>>

\* sdkmanager --licenses, fed "y" lines; a failure is logged as a warning
sdk_licenses ==
    /\ pc = "sdk_licenses"
    /\ Call("sdk_licenses")
    /\ \E o \in Outcomes :
         \/ /\ o = "int" /\ Interrupt("sdk_licenses") /\ Interrupted /\ UNCHANGED failed
         \/ /\ o = "fail" /\ Failure("sdk_licenses") /\ Goto("sdk_packages")
         \/ /\ o = "ok" /\ Goto("sdk_packages") /\ UNCHANGED failed
    /\ UNCHANGED <<hostVars, haveJava, msvcVars, tooling, flutterVars, sdkVars, toolVars,
                   runs, seed, prevOk>>

\* variant: the package invocation is wrapped like the license one
sdk_packages_swallowed ==
    /\ pc = "sdk_packages"
    /\ Call("sdk_packages")
    /\ \E o \in Outcomes :
         \/ /\ o = "int" /\ interruptedAt' = "sdk_packages"
            /\ pc' = "exited" /\ exitStatus' = ExitInterrupt /\ UNCHANGED <<failed, sdkPkgs>>
         \/ /\ o = "fail" /\ failed' = failed \cup {"sdk_packages"}
            /\ pc' = "flutter_config" /\ UNCHANGED <<sdkPkgs, exitStatus, interruptedAt>>
         \/ /\ o = "ok" /\ sdkPkgs' = TRUE /\ pc' = "flutter_config"
            /\ UNCHANGED <<failed, exitStatus, interruptedAt>>
    /\ UNCHANGED <<hostVars, haveJava, msvcVars, tooling, flutterVars, sdkVars,
                   flConfigured, flPrecached, runs, seed, prevOk, complete, remediation>>

\* sdkmanager <pkgs>
sdk_packages ==
    /\ pc = "sdk_packages"
    /\ Call("sdk_packages")
    /\ \E o \in Outcomes :
         \/ /\ o = "int" /\ Interrupt("sdk_packages") /\ Interrupted /\ UNCHANGED <<failed, sdkPkgs>>
         \/ /\ o = "fail" /\ Failure("sdk_packages") /\ Fatal /\ UNCHANGED sdkPkgs
         \/ /\ o = "ok" /\ sdkPkgs' = TRUE /\ Goto("flutter_config") /\ UNCHANGED failed
    /\ UNCHANGED <<hostVars, haveJava, msvcVars, tooling, flutterVars, sdkVars,
                   flConfigured, flPrecached, runs, seed, prevOk>>

\* flutter config --android-sdk <android_sdk>
flutter_config ==
    /\ pc = "flutter_config"
    /\ Call("flutter_config")
    /\ \E o \in Outcomes :
         \/ /\ o = "int" /\ Interrupt("flutter_config") /\ Interrupted /\ UNCHANGED <<failed, flConfigured>>
         \/ /\ o = "fail" /\ Failure("flutter_config") /\ Fatal /\ UNCHANGED flConfigured
         \/ /\ o = "ok" /\ flConfigured' = TRUE /\ Goto("flutter_precache")
            /\ UNCHANGED failed
    /\ UNCHANGED <<hostVars, haveJava, msvcVars, tooling, flutterVars, sdkVars,
                   sdkPkgs, flPrecached, runs, seed, prevOk>>

\* flutter precache --android [--windows]
flutter_precache ==
    /\ pc = "flutter_precache"
    /\ Call("flutter_precache")
    /\ \E o \in Outcomes :
         \/ /\ o = "int" /\ Interrupt("flutter_precache") /\ Interrupted /\ UNCHANGED <<failed, flPrecached>>
         \/ /\ o = "fail" /\ Failure("flutter_precache") /\ Fatal /\ UNCHANGED flPrecached
         \/ /\ o = "ok" /\ flPrecached' = TRUE /\ Return("install_android_packages")
            /\ UNCHANGED failed
    /\ UNCHANGED <<hostVars, haveJava, msvcVars, tooling, flutterVars, sdkVars,
                   sdkPkgs, flConfigured, runs, seed, prevOk>>

\* ---------------------------------------------------------------------
\* ensure_msvc_on_windows, then the end of main
\* ---------------------------------------------------------------------
\* "MSVC Build Tools not found": winget is required for the install attempt
MsvcNotFound == IF ~haveWinget THEN Return("ensure_msvc_on_windows") ELSE Goto("winget_msvc")

ensure_msvc_on_windows ==
    /\ pc = "ensure_msvc_on_windows"
    /\ Call("ensure_msvc_on_windows")
    /\ IF ~windows THEN Return("ensure_msvc_on_windows")
       ELSE IF haveVswhere THEN Goto("vswhere")
       ELSE MsvcNotFound
    /\ UNCHANGED <<hostVars, haveJava, msvcVars, tooling, flutterVars, sdkVars, toolVars,
                   failed, runs, seed, prevOk>>

\* subprocess.check_output([vswhere, ...]); CalledProcessError means "not found"
vswhere ==
    /\ pc = "vswhere"
    /\ Call("vswhere")
    /\ \E o \in Outcomes :
         \/ /\ o = "int" /\ Interrupt("vswhere") /\ Interrupted /\ UNCHANGED failed
         \/ /\ o = "fail" /\ Failure("vswhere") /\ MsvcNotFound
         \/ /\ o = "ok" /\ UNCHANGED failed
            /\ IF vcTools THEN Return("ensure_msvc_on_windows") ELSE MsvcNotFound
    /\ UNCHANGED <<hostVars, haveJava, msvcVars, tooling, flutterVars, sdkVars, toolVars,
                   runs, seed, prevOk>>

\* variant: the winget install of the Build Tools is not wrapped in try/except
winget_msvc_raises ==
    /\ pc = "winget_msvc"
    /\ Call("winget_msvc")
    /\ \E o \in Outcomes :
         \/ /\ o = "int" /\ Interrupt("winget_msvc") /\ Interrupted /\ UNCHANGED <<failed, msvcVars>>
         \/ /\ o = "fail" /\ Failure("winget_msvc") /\ Abort(NoText) /\ UNCHANGED msvcVars
         \/ /\ o = "ok" /\ UNCHANGED failed /\ Return("ensure_msvc_on_windows")
            /\ vcTools' \in BOOLEAN
            /\ haveVswhere' = (haveVswhere \/ vcTools')
    /\ UNCHANGED <<hostVars, haveJava, tooling, flutterVars, sdkVars, toolVars,
                   runs, seed, prevOk>>

\* winget install of the Build Tools; a failure is reported and swallowed
winget_msvc ==
    /\ pc = "winget_msvc"
    /\ Call("winget_msvc")
    /\ \E o \in Outcomes :
         \/ /\ o = "int" /\ Interrupt("winget_msvc") /\ Interrupted /\ UNCHANGED <<failed, msvcVars>>
         \/ /\ o = "fail" /\ Failure("winget_msvc") /\ Return("ensure_msvc_on_windows")
            /\ UNCHANGED msvcVars
         \/ /\ o = "ok" /\ UNCHANGED failed /\ Return("ensure_msvc_on_windows")
            /\ vcTools' \in BOOLEAN
            /\ haveVswhere' = (haveVswhere \/ vcTools')
    /\ UNCHANGED <<hostVars, haveJava, tooling, flutterVars, sdkVars, toolVars,
                   runs, seed, prevOk>>

Next ==
    \/ StartRun
    \/ ensure_prereqs
    \/ winget_jdk
    \/ install_flutter
    \/ git_clone_default
    \/ git_fetch
    \/ git_checkout
    \/ git_clone_channel
    \/ install_android_cmdline
    \/ download
    \/ unzip
    \/ copy
    \/ install_android_packages
    \/ sdk_licenses
    \/ sdk_packages
    \/ flutter_config
    \/ flutter_precache
    \/ ensure_msvc_on_windows
    \/ vswhere
    \/ winget_msvc

Spec == Init /\ [][Next]_vars

TypeOK ==
    /\ pc \in {"idle", "exited", "ensure_prereqs", "winget_jdk", "install_flutter",
               "git_clone_default", "git_fetch", "git_checkout", "git_clone_channel",
               "install_android_cmdline", "download", "unzip", "copy",
               "install_android_packages", "sdk_licenses", "sdk_packages",
               "flutter_config", "flutter_precache", "ensure_msvc_on_windows",
               "vswhere", "winget_msvc"}
    /\ exitStatus \in {ExitOk, ExitFatal, ExitInterrupt}
    /\ runs \in 0..MaxRuns
    /\ td \in {"none", "empty", "zip", "extracted"}
    /\ ref \in Refs
    /\ channel \in Channels
    /\ DOMAIN env_map \subseteq Keys

\* =====================================================================
\* Properties
\* =====================================================================
Range(f) == {f[i] : i \in DOMAIN f}

Events == Range(trace)

LastEvent == IF trace = <<>> THEN "none" ELSE trace[Len(trace)]

IsStep(e) == e \in Range(Steps)

\* calls that fetch, build or install something
Acquisitions == {"winget_jdk", "git_clone", "git_fetch", "git_checkout",
                 "download", "unzip", "copy"}

\* every blocking call except the vswhere query
Invocations == Acquisitions \cup {"sdk_licenses", "sdk_packages", "flutter_config",
                                  "flutter_precache", "winget_msvc"}

\* calls whose failure is not caught at the call site
FatalCalls == {"git_clone", "git_fetch", "git_checkout", "download", "unzip", "copy",
               "sdk_packages", "flutter_config", "flutter_precache"}

HasFlutterExe == flutter_head # "none"
HasSdkManager == <<"bin", IF windows THEN "sdkmanager.bat" ELSE "sdkmanager">> \in DOMAIN latest

\* C1 (as stated): on a run that follows a run that exited with status 0, no
\* step makes any acquisition or installer invocation: every step is skipped.
C1_AllSkipped == prevOk => Events \cap Invocations = {}

\* C1 (amended): throughout a run that follows a run that exited with status
\* 0, ensure_prereqs, install_flutter and install_android_cmdline make no
\* acquisition (no winget JDK install, git command, download, extraction or
\* copy), nothing installed is removed, and the marker paths and the trees
\* they belong to are unchanged.
C1_SecondRun ==
    [][prevOk' =>
         /\ Range(trace') \cap Acquisitions = {}
         /\ flutter_head' = flutter_head /\ flutter_fetched' = flutter_fetched
         /\ latest' = latest /\ latest_exists' = latest_exists
         /\ (tooling => tooling')
         /\ (sdkPkgs => sdkPkgs') /\ (flConfigured => flConfigured')
         /\ (flPrecached => flPrecached')]_vars

C1_Witness ==
    /\ prevOk /\ pc = "exited" /\ exitStatus = ExitOk
    /\ "sdk_packages" \in Events /\ HasFlutterExe /\ HasSdkManager

TargetHead == IF ref # "" THEN ref ELSE channel

\* C2 (as stated): whenever a run in which nothing failed, started in a
\* directory that was empty before the first run, reaches "Bootstrap
\* complete", the toolchain directory is what one failure-free run leaves:
\* flutter at the configured ref (or channel) and the whole archive under
\* cmdline-tools/latest.
C2_RerunRecovers ==
    (pc = "exited" /\ exitStatus = ExitOk /\ failed = {} /\ seed = EmptyTree)
      => (flutter_head = TargetHead /\ latest = Archive)

\* C3: once the package-installation invocation of sdkmanager has failed, the
\* run is over with a non-zero status and neither flutter config nor flutter
\* precache has been invoked in it.
C3_PackagesFatal ==
    "sdk_packages" \in failed =>
        /\ pc = "exited" /\ exitStatus # ExitOk
        /\ "flutter_config" \notin Events /\ "flutter_precache" \notin Events

C3_Witness == "sdk_packages" \in failed /\ pc = "exited"

\* C4: once the license invocation has failed, the run is at the package
\* invocation or has already made it: the failure did not leave the step.
C4_LicensesSoft ==
    "sdk_licenses" \in failed =>
        (pc = "sdk_packages" \/ "sdk_packages" \in Events)

C4_Witness == "sdk_licenses" \in failed /\ "sdk_packages" \in Events

\* ensure_prereqs has made its checks and git or java is missing
PrereqMissing ==
    /\ "ensure_prereqs" \in Events
    /\ pc # "winget_jdk" /\ interruptedAt # "winget_jdk"
    /\ (~haveGit \/ ~haveJava)

\* install_android_packages has looked for sdkmanager and it is absent
SdkManagerMissing == "install_android_packages" \in Events /\ ~HasSdkManager

FatalFailure == failed \cap FatalCalls # {} \/ PrereqMissing \/ SdkManagerMissing

\* C5: after a fatal failure of one of the first four steps the run is over,
\* the failing check or call is the last thing the run did, and "Bootstrap
\* complete" was not logged.
C5_AbortOnFatal ==
    FatalFailure =>
        /\ pc = "exited" /\ ~complete
        /\ (failed \cap FatalCalls # {} => LastEvent \in failed \cap FatalCalls)
        /\ (PrereqMissing => LastEvent \in {"ensure_prereqs", "winget_jdk"})
        /\ (SdkManagerMissing => LastEvent = "install_android_packages")

C5_Witness == FatalFailure /\ pc = "exited" /\ LastEvent \in {"download", "winget_jdk"}

\* the steps and the sub-invocations of install_android_packages, in order
Order == <<"ensure_prereqs", "install_flutter", "install_android_cmdline",
           "install_android_packages", "sdk_licenses", "sdk_packages",
           "flutter_config", "flutter_precache", "ensure_msvc_on_windows">>

InOrder(e) == e \in Range(Order)

\* C6: the steps started so far in a run (with the four invocations of
\* install_android_packages) are a prefix of the fixed order: none is
\* skipped, none starts early, none runs twice.
C6_StepOrder ==
    LET started == SelectSeq(trace, InOrder)
    IN  started = SubSeq(Order, 1, Len(started))

C6_Witness == complete /\ SelectSeq(trace, InOrder) = Order

RanToEnd == complete /\ SelectSeq(trace, IsStep) = Steps

\* C7: a finished run has status 0 exactly when every step ran and main
\* reached its end; after a fatal failure the status is neither 0 nor the
\* interrupt status.
C7_ExitStatus ==
    pc = "exited" =>
        /\ (exitStatus = ExitOk <=> RanToEnd)
        /\ (FatalFailure => exitStatus \notin {ExitOk, ExitInterrupt})

C7_Witness == pc = "exited" /\ FatalFailure /\ exitStatus = ExitFatal

\* C8: when KeyboardInterrupt is raised in a blocking call, soft ones
\* included, the run ends there with the interrupt status, nothing more is
\* started, and what the run had put in the toolchain directory stays.
C8_Interrupt ==
    [][interruptedAt' # "none" =>
         /\ pc' = "exited" /\ exitStatus' = ExitInterrupt /\ ~complete'
         /\ trace'[Len(trace')] = interruptedAt'
         /\ (interruptedAt = "none" =>
               /\ flutter_head' = flutter_head /\ flutter_fetched' = flutter_fetched
               /\ \A p \in DOMAIN latest : p \in DOMAIN latest'
               /\ latest_exists' = latest_exists /\ tooling' = tooling
               /\ UNCHANGED <<sdkPkgs, flConfigured, flPrecached>>)]_vars

C8_Witness == interruptedAt = "sdk_licenses" /\ pc = "exited" /\ exitStatus = ExitInterrupt

fsAll == <<tooling, flutter_head, flutter_fetched, latest_exists, latest, td,
           sdkPkgs, flConfigured, flPrecached>>

\* C9: install_flutter started with the flutter executable present, and
\* install_android_cmdline started with sdkmanager present, return at once:
\* no call is made and nothing in the file system changes.
C9_NoReacquisition ==
    [][/\ (pc = "install_flutter" /\ HasFlutterExe =>
            /\ pc' = "install_android_cmdline"
            /\ trace' = Append(trace, "install_flutter")
            /\ UNCHANGED fsAll)
       /\ (pc = "install_android_cmdline" /\ HasSdkManager =>
            /\ pc' = "install_android_packages"
            /\ trace' = Append(trace, "install_android_cmdline")
            /\ UNCHANGED fsAll)]_vars

C9_Witness ==
    /\ pc = "install_android_packages"
    /\ trace = <<"ensure_prereqs", "install_flutter", "install_android_cmdline">>
    /\ HasFlutterExe /\ HasSdkManager

\* the copy loop of this run has finished without error
Placed ==
    /\ "copy" \in Events /\ pc # "copy"
    /\ "copy" \notin failed /\ interruptedAt # "copy"

\* no path is a file in one tree and a directory in the other
SameKinds(a, b) == \A p \in DOMAIN a \cap DOMAIN b : (a[p] = "dir") <=> (b[p] = "dir")

Expected(k) == Str(IF k \in DOMAIN overrides THEN overrides[k] ELSE Default(k))

HostBase == IF windows THEN "win" ELSE "linux"

\* C11: in every run, for each recognized key the value the steps read, and
\* pass to git, to the download and to sdkmanager, is the value of the
\* key's line in .env when there is one, and the default otherwise (also
\* when there is no file).
C11_ConfigPrecedence ==
    pc # "idle" =>
        /\ channel = Expected("FLUTTER_CHANNEL")
        /\ ref = Expected("FLUTTER_REF")
        /\ cmd_ver = Expected("ANDROID_CMDLINE_TOOLS")
        /\ platform_id = Expected("ANDROID_PLATFORM")
        /\ build_tools_id = Expected("ANDROID_BUILD_TOOLS")
        /\ ndk_id = Expected("ANDROID_NDK")
        /\ cmake_id = Expected("ANDROID_CMAKE")
        /\ (LastEvent = "git_clone" /\ Len(argv) = 8 =>
              argv[6] = Expected("FLUTTER_CHANNEL"))
        /\ (LastEvent = "git_fetch" => argv[4] = Expected("FLUTTER_REF"))
        /\ (LastEvent = "git_checkout" => argv[3] = Expected("FLUTTER_REF"))
        /\ (LastEvent = "download" =>
              argv = <<"https://dl.google.com/android/repository/commandlinetools-"
                        \o HostBase \o "-" \o Expected("ANDROID_CMDLINE_TOOLS")
                        \o "_latest.zip">>)
        /\ (LastEvent = "sdk_packages" =>
              SubSeq(argv, 3, Len(argv)) =
                <<"platform-tools",
                  "platforms;" \o Expected("ANDROID_PLATFORM"),
                  "build-tools;" \o Expected("ANDROID_BUILD_TOOLS"),
                  "cmake;" \o Expected("ANDROID_CMAKE"),
                  "ndk;" \o Expected("ANDROID_NDK")>>)

C11_Witness ==
    /\ LastEvent = "sdk_packages" /\ envFile.exists
    /\ "ANDROID_NDK" \in DOMAIN overrides /\ "FLUTTER_CHANNEL" \notin DOMAIN overrides
    /\ argv[7] = "ndk;r25=c" /\ flutter_head = "stable"

BatSuffix == IF windows THEN ".bat" ELSE ""

\* C12: flutter_bin and sdkmanager_bin give the path with ".bat" on a windows
\* host and the same path without it elsewhere; the executable a step
\* invokes is the one whose existence the step checked.
C12_ExecutableNaming ==
    /\ flutter_bin(flutter_root) = ".tooling/flutter/bin/flutter" \o BatSuffix
    /\ sdkmanager_exe(android_sdk) =
         ".tooling/android-sdk/cmdline-tools/latest/bin/sdkmanager" \o BatSuffix
    /\ (LastEvent \in {"flutter_config", "flutter_precache"} =>
          argv[1] = ".tooling/flutter/bin/flutter" \o BatSuffix /\ HasFlutterExe)
    /\ (LastEvent \in {"sdk_licenses", "sdk_packages"} =>
          /\ argv[1] = ".tooling/android-sdk/cmdline-tools/latest/bin/sdkmanager" \o BatSuffix
          /\ <<"bin", "sdkmanager" \o BatSuffix>> \in DOMAIN latest)

C12_Witness ==
    /\ windows /\ LastEvent = "flutter_config"
    /\ argv[1] = ".tooling/flutter/bin/flutter.bat"
    /\ <<"bin", "sdkmanager.bat">> \in DOMAIN latest

GitCalls == {"git_clone", "git_fetch", "git_checkout"}

IsGit(e) == e \in GitCalls

IsPrefix(a, b) == Len(a) <= Len(b) /\ a = SubSeq(b, 1, Len(a))

\* C13: with a configured ref the git commands of install_flutter are, in
\* order, a shallow clone of the default branch, a depth-1 fetch of the ref
\* and a checkout of the ref, and the channel appears in none of them; with
\* no ref there is one shallow clone of the channel branch; a command that
\* fails is the last one and the run ends with the fatal status; the step
\* returns only after the whole sequence.
C13_RefOverChannel ==
    LET g == SelectSeq(trace, IsGit)
        eref == Expected("FLUTTER_REF")
        full == IF eref # "" THEN <<"git_clone", "git_fetch", "git_checkout">>
                             ELSE <<"git_clone">>
    IN  /\ IsPrefix(g, full)
        /\ (pc = "git_clone_default" => eref # "")
        /\ (pc = "git_clone_channel" => eref = "")
        /\ (LastEvent = "git_clone" =>
              argv = IF eref # ""
                     THEN <<"git", "clone", "--depth", "1",
                            "https://github.com/flutter/flutter", ".tooling/flutter">>
                     ELSE <<"git", "clone", "--depth", "1", "-b",
                            Expected("FLUTTER_CHANNEL"),
                            "https://github.com/flutter/flutter", ".tooling/flutter">>)
        /\ (LastEvent = "git_fetch" => argv = <<"git", "fetch", "origin", eref, "--depth", "1">>)
        /\ (LastEvent = "git_checkout" => argv = <<"git", "checkout", eref>>)
        /\ (failed \cap GitCalls # {} =>
              pc = "exited" /\ exitStatus = ExitFatal /\ LastEvent \in failed)
        /\ (g # <<>> /\ "install_android_cmdline" \in Events => g = full)

C13_Witness ==
    /\ pc = "install_android_cmdline" /\ LastEvent = "git_checkout"
    /\ "FLUTTER_CHANNEL" \in DOMAIN overrides /\ flutter_head = "v3"

\* C14: ensure_prereqs returns only with git present and java present at
\* its last check; the winget install of the JDK is entered only with java
\* absent on a windows host that has winget; whether that install succeeds
\* or fails, java is checked again: the step returns if it is there and
\* the run ends with the fatal status if not.
C14_Prereqs ==
    [][/\ (pc \in {"ensure_prereqs", "winget_jdk"} /\ pc' = "install_flutter" =>
             haveGit /\ haveJava')
       /\ (pc' = "winget_jdk" => haveGit /\ ~haveJava /\ windows /\ haveWinget)
       /\ (pc = "ensure_prereqs" /\ haveGit /\ ~haveJava /\ ~(windows /\ haveWinget) =>
             pc' = "exited" /\ exitStatus' = ExitFatal)
       /\ (pc = "winget_jdk" /\ interruptedAt' = "none" =>
             IF haveJava' THEN pc' = "install_flutter"
                          ELSE pc' = "exited" /\ exitStatus' = ExitFatal)]_vars

C14_Witness == "winget_jdk" \in failed /\ haveJava /\ pc = "install_flutter"

\* a SystemExit of ensure_prereqs ended the run
PrereqAbort ==
    /\ pc = "exited" /\ exitStatus = ExitFatal
    /\ LastEvent \in {"ensure_prereqs", "winget_jdk"}

\* C15 (as stated): the message of every fatal abort of ensure_prereqs names
\* an install command for windows and one for the other family.
C15_BothFamilies ==
    PrereqAbort => {"Windows", "Linux"} \subseteq {m[1] : m \in remediation}

MsvcPositions == {"ensure_msvc_on_windows", "vswhere", "winget_msvc"}

\* C16: on a host that is not windows ensure_msvc_on_windows returns at once
\* without a call; on windows every way through the step that is not
\* interrupted ends in "Bootstrap complete" and status 0; the winget install
\* is entered only on windows with winget present and the toolchain not
\* detected (no vswhere, a failed query, or no VC tools reported).
C16_MsvcNonFatal ==
    [][/\ (pc = "ensure_msvc_on_windows" /\ ~windows =>
             /\ pc' = "exited" /\ exitStatus' = ExitOk /\ complete'
             /\ trace' = Append(trace, "ensure_msvc_on_windows"))
       /\ (pc \in MsvcPositions /\ interruptedAt' = "none" =>
             \/ pc' \in {"vswhere", "winget_msvc"} /\ pc' # pc
             \/ pc' = "exited" /\ exitStatus' = ExitOk /\ complete')
       /\ (pc' = "winget_msvc" =>
             /\ windows /\ haveWinget
             /\ (~haveVswhere \/ "vswhere" \in failed' \/ ~vcTools))
       /\ (pc = "winget_msvc" /\ interruptedAt' = "none" =>
             pc' = "exited" /\ exitStatus' = ExitOk /\ complete')]_vars

C16_Witness ==
    /\ "winget_msvc" \in failed /\ "vswhere" \in failed
    /\ pc = "exited" /\ exitStatus = ExitOk /\ complete

SdkManagerCalls == {"sdk_licenses", "sdk_packages"}

\* C17: when install_android_packages starts without sdkmanager the run ends
\* there with the fatal status, before any call; sdkmanager has never been
\* invoked while its executable is absent.
C17_SdkManagerRequired ==
    /\ ("install_android_packages" \in Events /\ ~HasSdkManager =>
          /\ pc = "exited" /\ exitStatus = ExitFatal
          /\ LastEvent = "install_android_packages")
    /\ (Events \cap SdkManagerCalls # {} => HasSdkManager)

C17_Witness ==
    /\ LastEvent = "install_android_packages" /\ ~HasSdkManager
    /\ pc = "exited" /\ arch = ArchiveNoMgr

\* C18: outside the body of the with block of install_android_cmdline the
\* temporary directory does not exist, however the block was left.
C18_TempCleaned == pc \notin {"download", "unzip", "copy"} => td = "none"

C18_Witness ==
    /\ pc = "exited" /\ td = "none" /\ interruptedAt = "copy"
    /\ <<"bin">> \in DOMAIN latest

\* C19: a flutter precache invocation always passes --android, passes
\* --windows exactly on a windows host, and comes after a flutter config
\* invocation of the same run that did not fail.
C19_PrecacheFlags ==
    LastEvent = "flutter_precache" =>
        /\ "--android" \in Range(argv)
        /\ ("--windows" \in Range(argv) <=> windows)
        /\ SubSeq(argv, 2, Len(argv)) \in
              {<<"precache", "--android">>, <<"precache", "--android", "--windows">>}
        /\ "flutter_config" \in Events /\ "flutter_config" \notin failed
        /\ flConfigured

C19_Witness ==
    /\ LastEvent = "flutter_precache" /\ windows
    /\ SubSeq(argv, 2, Len(argv)) = <<"precache", "--android", "--windows">>

\* C20 (as stated, for the states a run leaves behind): the flutter
\* executable exists only if the tree is at the configured ref (or channel),
\* and sdkmanager exists only if every entry of the archive's cmdline-tools
\* directory is under cmdline-tools/latest.
C20_MarkerComplete ==
    pc = "exited" =>
        /\ (HasFlutterExe =>
              flutter_head = IF Expected("FLUTTER_REF") # ""
                             THEN Expected("FLUTTER_REF") ELSE Expected("FLUTTER_CHANNEL"))
        /\ (HasSdkManager => \A p \in DOMAIN arch : p \in DOMAIN latest)

====
